---- MODULE Spec2Model ----
(***************************************************************************)
(* Window-clock: the monitor enumeration of monitor_utils.py and the       *)
(* pointer-driven overlay of window_clock.py (class WindowClock).          *)
(*                                                                         *)
(* Text is a sequence of one-character strings.  Pointer coordinates and   *)
(* font sizes are integers.  Python's "/" yields halves (the midpoint of   *)
(* the canvas, the centre of a bounding box), so every canvas coordinate   *)
(* that can hold a half is kept doubled; such names end in 2.              *)
(***************************************************************************)
EXTENDS Integers, Sequences, FiniteSets, TLC

VARIABLES
    \* ---- monitor_utils.enumerate_monitors
    platform,            \* sys.platform
    os_input,            \* what the platform's query hands back
    screen,              \* <<root.winfo_screenwidth(), root.winfo_screenheight()>>
    enum_status,         \* "init" | "returned" | "raised" | "crashed"
    enum_found,          \* the platform path's list, before the fallback
    enum_result,         \* the list enumerate_monitors returned
    \* ---- WindowClock
    self,                \* the attributes of the WindowClock object
    canvas,              \* the text item of self.canvas and the canvas background
    form,                \* the settings panel's fields (tk variables)
    clock_window,        \* the geometry of self.clock_window, as Tk read it
    last,                \* the event handled last
    env,                 \* the session: the inputs this run draws from
    button               \* mouse button 1, as the <Button-1> and <ButtonRelease-1>
                         \* events handled so far leave it: "up" | "down", or
                         \* "out_of_turn" once a press came with no release
                         \* since the press before it

resolver_vars == <<platform, os_input, screen, enum_status, enum_found, enum_result>>

clock_vars == <<self, canvas, form, clock_window, last, env, button>>

vars == <<platform, os_input, screen, enum_status, enum_found, enum_result,
          self, canvas, form, clock_window, last, env, button>>

\* Python's None, and an item or attribute that does not exist; an attribute
\* that holds a number n is kept as <<n>>
None == <<>>

----------------------------------------------------------------------------
(* Bounds of the model.                                                    *)

\* most lines of tool output
MaxLines == 2

\* most displays a native query reports
MaxDisplays == 2

\* largest font size the pointer and the settings panel are let reach
MaxFontSize == 3

\* the clock shows one of the times 0..MaxTime
MaxTime == 1

----------------------------------------------------------------------------
(* Python string operations used by _monitors_linux.                       *)

Abs(n) == IF n < 0 THEN -n ELSE n

Max(a, b) == IF a >= b THEN a ELSE b

DigitChars == <<"0", "1", "2", "3", "4", "5", "6", "7", "8", "9">>

IsDigit(c) == \E i \in 1..10 : DigitChars[i] = c

DigitVal(c) == (CHOOSE i \in 1..10 : DigitChars[i] = c) - 1

IsSpace(c) == c = " "

\* str.startswith(c) for a one-character prefix
StartsWith(s, c) == Len(s) >= 1 /\ s[1] = c

\* index of the first c in s, 0 when there is none
RECURSIVE FindFrom(_, _, _)
FindFrom(s, c, i) ==
    IF i > Len(s) THEN 0
    ELSE IF s[i] = c THEN i
    ELSE FindFrom(s, c, i + 1)

\* str.split(c): always at least one piece, empty pieces kept
RECURSIVE Split(_, _)
Split(s, c) ==
    LET i == FindFrom(s, c, 1)
    IN  IF i = 0 THEN <<s>>
        ELSE <<SubSeq(s, 1, i - 1)>> \o Split(SubSeq(s, i + 1, Len(s)), c)

\* str.split(c, 1): at most one cut, at the first c
SplitOnce(s, c) ==
    LET i == FindFrom(s, c, 1)
    IN  IF i = 0 THEN <<s>>
        ELSE <<SubSeq(s, 1, i - 1), SubSeq(s, i + 1, Len(s))>>

\* line.strip().split(): the maximal runs of non-blank characters
RECURSIVE SplitWs(_, _)
SplitWs(s, cur) ==
    IF s = <<>> THEN (IF cur = <<>> THEN <<>> ELSE <<cur>>)
    ELSE IF IsSpace(Head(s))
         THEN (IF cur = <<>> THEN <<>> ELSE <<cur>>) \o SplitWs(Tail(s), <<>>)
         ELSE SplitWs(Tail(s), Append(cur, Head(s)))

Fields(line) == SplitWs(line, <<>>)

RECURSIVE DigitsValue(_, _)
DigitsValue(s, acc) ==
    IF s = <<>> THEN acc ELSE DigitsValue(Tail(s), 10 * acc + DigitVal(Head(s)))

AllDigits(s) == Len(s) >= 1 /\ \A i \in 1..Len(s) : IsDigit(s[i])

\* int(s) accepts one optional sign and then digits only
IsIntLiteral(s) ==
    IF Len(s) >= 1 /\ s[1] \in {"+", "-"}
    THEN AllDigits(Tail(s))
    ELSE AllDigits(s)

\* int(s), for s with IsIntLiteral(s)
IntOf(s) ==
    IF s[1] = "-" THEN 0 - DigitsValue(Tail(s), 0)
    ELSE IF s[1] = "+" THEN DigitsValue(Tail(s), 0)
    ELSE DigitsValue(s, 0)

\* str(n) for an integer n
RECURSIVE NatStr(_)
NatStr(n) ==
    IF n < 10 THEN <<DigitChars[n + 1]>>
    ELSE NatStr(n \div 10) \o <<DigitChars[(n % 10) + 1]>>

IntStr(n) == IF n < 0 THEN <<"-">> \o NatStr(0 - n) ELSE NatStr(n)

----------------------------------------------------------------------------
(* class Monitor                                                           *)

\* Monitor.__init__: an empty name falls back to "{x},{y}"
Monitor(width, height, x, y, name) ==
    [width |-> width, height |-> height, x |-> x, y |-> y,
     name |-> IF name = <<>> THEN IntStr(x) \o <<",">> \o IntStr(y) ELSE name]

----------------------------------------------------------------------------
(* _monitors_linux: one line of `xrandr --listmonitors`                    *)

Skip == [kind |-> "skip"]

ValueError == [kind |-> "error"]

\* lines 110-117: the body of the loop for one line; "error" is the
\* ValueError of a failed tuple unpacking or of int()
ParseLine(line) ==
    LET parts == Fields(line)
    IN  IF ~(Len(parts) >= 4 /\ StartsWith(parts[2], "+")) THEN Skip
        ELSE
          LET name == parts[Len(parts)]
              geometry == parts[3]
              sp == SplitOnce(geometry, "+")
          IN  IF Len(sp) # 2 THEN ValueError
              ELSE
                LET wh == Split(sp[1], "x")
                    xy == Split(sp[2], "+")
                IN  IF Len(wh) # 2 \/ Len(xy) # 2 THEN ValueError
                    ELSE IF \E t \in {wh[1], wh[2], xy[1], xy[2]} : ~IsIntLiteral(t)
                         THEN ValueError
                    ELSE [kind |-> "monitor",
                          m |-> Monitor(IntOf(wh[1]), IntOf(wh[2]),
                                        IntOf(xy[1]), IntOf(xy[2]), name)]

\* lines 109-118: the loop; the first ValueError leaves the function
RECURSIVE ParseLines(_, _)
ParseLines(lines, monitors) ==
    IF lines = <<>> THEN [status |-> "returned", monitors |-> monitors]
    ELSE LET r == ParseLine(Head(lines))
         IN  IF r.kind = "error" THEN [status |-> "raised", monitors |-> <<>>]
             ELSE IF r.kind = "skip" THEN ParseLines(Tail(lines), monitors)
             ELSE ParseLines(Tail(lines), Append(monitors, r.m))

\* _monitors_linux: out.ran is FALSE when check_output raised (tool missing,
\* non-zero exit), which the except clause turns into an empty list
MonitorsLinux(out) ==
    IF ~out.ran THEN [status |-> "returned", monitors |-> <<>>]
    ELSE ParseLines(out.lines, <<>>)

----------------------------------------------------------------------------
(* _monitors_windows                                                       *)

RECURSIVE RectMonitors(_)
RectMonitors(rects) ==
    IF rects = <<>> THEN <<>>
    ELSE LET r == Head(rects)
         IN  <<Monitor(r.right - r.left, r.bottom - r.top, r.left, r.top, r.name)>>
             \o RectMonitors(Tail(rects))

\* in.ok is the value of EnumDisplayMonitors; the callback ran once per rect
MonitorsWindows(in) ==
    IF ~in.ok THEN [status |-> "returned", monitors |-> <<>>]
    ELSE [status |-> "returned", monitors |-> RectMonitors(in.rects)]

----------------------------------------------------------------------------
(* _monitors_darwin                                                        *)

\* int() of a float kept in tenths: truncation toward zero
Trunc10(t) == IF t < 0 THEN 0 - ((0 - t) \div 10) ELSE t \div 10

RECURSIVE BoundsMonitors(_)
BoundsMonitors(ds) ==
    IF ds = <<>> THEN <<>>
    ELSE LET d == Head(ds)
         IN  <<Monitor(Trunc10(d.size_w), Trunc10(d.size_h),
                       Trunc10(d.origin_x), Trunc10(d.origin_y), IntStr(d.did))>>
             \o BoundsMonitors(Tail(ds))

\* CGDisplayBounds returns a CGRect by value and is declared to return a
\* pointer that is then dereferenced: what the call hands back is not defined.
\* in.displays holds whatever was read, in.fault says that the read faulted.
MonitorsDarwin(in) ==
    IF ~in.loaded THEN [status |-> "returned", monitors |-> <<>>]
    ELSE IF in.rc # 0 THEN [status |-> "returned", monitors |-> <<>>]
    ELSE IF in.displays # <<>> /\ in.fault THEN [status |-> "crashed", monitors |-> <<>>]
    ELSE [status |-> "returned", monitors |-> BoundsMonitors(in.displays)]

----------------------------------------------------------------------------
(* enumerate_monitors                                                      *)

DefaultName == <<"D", "e", "f", "a", "u", "l", "t">>

\* lines 124-129: the platform's path
PlatformMonitors(plat, in) ==
    IF plat = "win32" THEN MonitorsWindows(in)
    ELSE IF plat = "darwin" THEN MonitorsDarwin(in)
    ELSE MonitorsLinux(in)

\* the fallback left out
Fallback_Missing(monitors, scr) == monitors

\* lines 131-132: the fallback
Fallback(monitors, scr) ==
    IF monitors = <<>> THEN <<Monitor(scr[1], scr[2], 0, 0, DefaultName)>>
    ELSE monitors

\* enumerate_monitors(root): [status, found, monitors]; found is the local
\* `monitors` before line 131
EnumerateMonitorsOf(plat, in, scr) ==
    LET r == PlatformMonitors(plat, in)
    IN  IF r.status # "returned"
        THEN [status |-> r.status, found |-> <<>>, monitors |-> <<>>]
        ELSE [status |-> "returned", found |-> r.monitors,
              monitors |-> Fallback(r.monitors, scr)]

----------------------------------------------------------------------------
(* Tk, as WindowClock uses it                                              *)

\* a font size of 0 asks Tk for its default size, a negative one is in pixels
DefaultFontPixels == 2

FontPixels(size) ==
    IF size > 0 THEN size ELSE IF size < 0 THEN 0 - size ELSE DefaultFontPixels

\* get_time_str: '%H:%M:%S' has 8 characters, '%I:%M:%S %p' has 11
TimeChars(time_format) == IF time_format = "12" THEN 11 ELSE 8

\* get_time_str(): the string shown for time t
GetTimeStr(time_format, t) == [format |-> time_format, time |-> t]

\* '%p' of the instant t: the instants of the model alternate between the two
\* halves of the day
Meridiem(t) == IF t % 2 = 0 THEN "AM" ELSE "PM"

\* the width Tk measures for the string: so much a character, and in most
\* fonts "P" is narrower than "A", so a 12-hour string ending in PM is a pixel
\* narrower than one ending in AM
TextWidth(c) ==
    TimeChars(c.text.format) * FontPixels(c.font[2])
      - (IF c.text.format = "12" /\ Meridiem(c.text.time) = "PM" THEN 1 ELSE 0)

TextHeight(c) == 2 * FontPixels(c.font[2])

\* canvas.bbox(self.text_item): whole pixels around the centre-anchored text,
\* whose coordinates c.x2, c.y2 are doubled
BBox(c) ==
    LET w == TextWidth(c)
        h == TextHeight(c)
        left == ((c.x2 + 1) \div 2) - (w \div 2)
        top == ((c.y2 + 1) \div 2) - (h \div 2)
    IN  <<left, top, left + w, top + h>>

\* hx1 <= event.x <= hx2 and hy1 <= event.y <= hy2
InBox(b, x, y) == b[1] <= x /\ x <= b[3] /\ b[2] <= y /\ y <= b[4]

\* the side of the resize handle
HandleSize == 8

\* the oval from (bbox[2], bbox[3]) to (bbox[2] + 8, bbox[3] + 8)
HandleBox(b) == <<b[3], b[4], b[3] + HandleSize, b[4] + HandleSize>>

\* the geometry string of apply_settings, line 113-115
GeometryString(m) ==
    IntStr(m.width) \o <<"x">> \o IntStr(m.height)
      \o (IF m.x >= 0 THEN <<"+">> ELSE <<>>) \o IntStr(m.x)
      \o (IF m.y >= 0 THEN <<"+">> ELSE <<>>) \o IntStr(m.y)

\* index of the first "+" or "-" of s at or after i, 0 when there is none
RECURSIVE FindSign(_, _)
FindSign(s, i) ==
    IF i > Len(s) THEN 0
    ELSE IF s[i] \in {"+", "-"} THEN i
    ELSE FindSign(s, i + 1)

\* wm geometry WxH{+-}X{+-}Y as Tk reads it: the character before X says from
\* which edge of the screen X is counted ("+" left, "-" right), before Y
\* likewise ("+" top, "-" bottom); X and Y may carry a sign of their own
TkGeometry(s) ==
    LET ix == FindFrom(s, "x", 1)
        i1 == FindSign(s, ix + 1)
        i2 == FindSign(s, i1 + 2)
    IN  [width |-> IntOf(SubSeq(s, 1, ix - 1)),
         height |-> IntOf(SubSeq(s, ix + 1, i1 - 1)),
         xedge |-> IF s[i1] = "+" THEN "left" ELSE "right",
         x |-> IntOf(SubSeq(s, i1 + 1, i2 - 1)),
         yedge |-> IF s[i2] = "+" THEN "top" ELSE "bottom",
         y |-> IntOf(SubSeq(s, i2 + 1, Len(s)))]

\* monitor_names.index(name): the first position that holds name, from 0
RECURSIVE IndexOf(_, _, _)
IndexOf(names, name, i) ==
    IF names[i + 1] = name THEN i ELSE IndexOf(names, name, i + 1)

Names(monitors) == [i \in 1..Len(monitors) |-> monitors[i].name]

InSeq(v, seq) == \E i \in 1..Len(seq) : seq[i] = v

----------------------------------------------------------------------------
(* class WindowClock.  A handler takes the state S = [self, canvas, form,  *)
(* clock_window] and gives the state it leaves.                            *)

\* the snapping distance of on_text_drag
SnapDistance == 10

\* canvas.coords(self.selection_rect, bbox) and canvas.coords(self.scale_handle,
\* ...), each for an item that exists
MoveItems(sf, bbox) ==
    [sf EXCEPT !.selection_rect = IF @ # None THEN bbox ELSE @,
               !.scale_handle = IF @ # None THEN HandleBox(bbox) ELSE @]

\* apply_settings ending the gesture in progress
ApplySettings_EndsGesture(S) ==
    LET sf == S.self
        f == S.form
        s1 == [sf EXCEPT !.font_family = f.font_var]
    IN  IF ~IsIntLiteral(f.font_size_var) THEN [S EXCEPT !.self = s1]
        ELSE
          LET s2 == [s1 EXCEPT !.font_size = IntOf(f.font_size_var),
                               !.dragging = FALSE, !.scaling = FALSE]
              s3 == IF InSeq(f.monitor_var, sf.monitor_names)
                    THEN [s2 EXCEPT !.selected_monitor_index =
                                        IndexOf(sf.monitor_names, f.monitor_var, 0)]
                    ELSE s2
              monitor == s3.monitors[s3.selected_monitor_index + 1]
              c == [S.canvas EXCEPT !.bg = s3.bg_color,
                                    !.font = <<s3.font_family, s3.font_size>>,
                                    !.fill = s3.font_color]
          IN  [self |-> MoveItems(s3, BBox(c)),
               canvas |-> c,
               form |-> f,
               clock_window |-> TkGeometry(GeometryString(monitor))]

\* apply_settings, lines 106-123.  font_size_var.get() raises TclError on a
\* field that holds no integer; Tk reports the error and the handler ends there.
ApplySettings(S) ==
    LET sf == S.self
        f == S.form
        s1 == [sf EXCEPT !.font_family = f.font_var]
    IN  IF ~IsIntLiteral(f.font_size_var) THEN [S EXCEPT !.self = s1]
        ELSE
          LET s2 == [s1 EXCEPT !.font_size = IntOf(f.font_size_var)]
              s3 == IF InSeq(f.monitor_var, sf.monitor_names)
                    THEN [s2 EXCEPT !.selected_monitor_index =
                                        IndexOf(sf.monitor_names, f.monitor_var, 0)]
                    ELSE s2
              monitor == s3.monitors[s3.selected_monitor_index + 1]
              c == [S.canvas EXCEPT !.bg = s3.bg_color,
                                    !.font = <<s3.font_family, s3.font_size>>,
                                    !.fill = s3.font_color]
          IN  [self |-> MoveItems(s3, BBox(c)),
               canvas |-> c,
               form |-> f,
               clock_window |-> TkGeometry(GeometryString(monitor))]

\* on_text_press deleting the outline and leaving the handle
OnTextPress_KeepsHandle(S, ex, ey) ==
    LET sf == S.self
        bbox == BBox(S.canvas)
    IN  IF sf.scale_handle # None /\ InBox(sf.scale_handle, ex, ey)
        THEN [S EXCEPT !.self = [sf EXCEPT !.scaling = TRUE,
                                           !.scale_start_y = <<ey>>,
                                           !.initial_font_size = <<sf.font_size>>]]
        ELSE IF InBox(bbox, ex, ey)
        THEN [S EXCEPT !.self = [sf EXCEPT !.dragging = TRUE,
                                           !.drag_offset_x2 = <<2 * ex - (bbox[1] + bbox[3])>>,
                                           !.drag_offset_y2 = <<2 * ey - (bbox[2] + bbox[4])>>,
                                           !.selection_rect = bbox,
                                           !.scale_handle = HandleBox(bbox)]]
        ELSE [S EXCEPT !.self = [sf EXCEPT !.selection_rect = None]]

\* on_text_press taking the offset from the bounding box's top-left corner and
\* not from its centre
OnTextPress_OffsetFromCorner(S, ex, ey) ==
    LET sf == S.self
        bbox == BBox(S.canvas)
    IN  IF sf.scale_handle # None /\ InBox(sf.scale_handle, ex, ey)
        THEN [S EXCEPT !.self = [sf EXCEPT !.scaling = TRUE,
                                           !.scale_start_y = <<ey>>,
                                           !.initial_font_size = <<sf.font_size>>]]
        ELSE IF InBox(bbox, ex, ey)
        THEN [S EXCEPT !.self = [sf EXCEPT !.dragging = TRUE,
                                           !.drag_offset_x2 = <<2 * ex - 2 * bbox[1]>>,
                                           !.drag_offset_y2 = <<2 * ey - 2 * bbox[2]>>,
                                           !.selection_rect = bbox,
                                           !.scale_handle = HandleBox(bbox)]]
        ELSE [S EXCEPT !.self = [sf EXCEPT !.selection_rect = None,
                                           !.scale_handle = None]]

\* on_text_press testing the text's bounding box before the handle
OnTextPress_BoxFirst(S, ex, ey) ==
    LET sf == S.self
        bbox == BBox(S.canvas)
    IN  IF InBox(bbox, ex, ey)
        THEN [S EXCEPT !.self = [sf EXCEPT !.dragging = TRUE,
                                           !.drag_offset_x2 = <<2 * ex - (bbox[1] + bbox[3])>>,
                                           !.drag_offset_y2 = <<2 * ey - (bbox[2] + bbox[4])>>,
                                           !.selection_rect = bbox,
                                           !.scale_handle = HandleBox(bbox)]]
        ELSE IF sf.scale_handle # None /\ InBox(sf.scale_handle, ex, ey)
        THEN [S EXCEPT !.self = [sf EXCEPT !.scaling = TRUE,
                                           !.scale_start_y = <<ey>>,
                                           !.initial_font_size = <<sf.font_size>>]]
        ELSE [S EXCEPT !.self = [sf EXCEPT !.selection_rect = None,
                                           !.scale_handle = None]]

\* on_text_press, lines 125-155
OnTextPress(S, ex, ey) ==
    LET sf == S.self
        bbox == BBox(S.canvas)
    IN  IF sf.scale_handle # None /\ InBox(sf.scale_handle, ex, ey)
        THEN [S EXCEPT !.self = [sf EXCEPT !.scaling = TRUE,
                                           !.scale_start_y = <<ey>>,
                                           !.initial_font_size = <<sf.font_size>>]]
        ELSE IF InBox(bbox, ex, ey)
        THEN [S EXCEPT !.self = [sf EXCEPT !.dragging = TRUE,
                                           !.drag_offset_x2 = <<2 * ex - (bbox[1] + bbox[3])>>,
                                           !.drag_offset_y2 = <<2 * ey - (bbox[2] + bbox[4])>>,
                                           !.selection_rect = bbox,
                                           !.scale_handle = HandleBox(bbox)]]
        ELSE [S EXCEPT !.self = [sf EXCEPT !.selection_rect = None,
                                           !.scale_handle = None]]

\* the resize branch adding the pointer's travel to the current font size and
\* not to the one recorded at the press
DragScale_FromCurrent(S, ey) ==
    LET sf == S.self
        delta == ey - sf.scale_start_y[1]
        new_size == Max(1, sf.font_size + delta)
    IN  IF new_size = sf.font_size THEN S
        ELSE
          LET c == [S.canvas EXCEPT !.font = <<sf.font_family, new_size>>]
          IN  [S EXCEPT !.self = MoveItems([sf EXCEPT !.font_size = new_size], BBox(c)),
                        !.canvas = c,
                        !.form = [S.form EXCEPT !.font_size_var = IntStr(new_size)]]

\* on_text_drag, lines 158-170: the resize branch
DragScale(S, ey) ==
    LET sf == S.self
        delta == ey - sf.scale_start_y[1]
        new_size == Max(1, sf.initial_font_size[1] + delta)
    IN  IF new_size = sf.font_size THEN S
        ELSE
          LET c == [S.canvas EXCEPT !.font = <<sf.font_family, new_size>>]
          IN  [S EXCEPT !.self = MoveItems([sf EXCEPT !.font_size = new_size], BBox(c)),
                        !.canvas = c,
                        !.form = [S.form EXCEPT !.font_size_var = IntStr(new_size)]]

\* the snap with "<" for "<="
SnapAxis_Strict(v2, size) == IF Abs(v2 - size) < 2 * SnapDistance THEN size ELSE v2

\* lines 178-183: one axis of the snap, on doubled coordinates; the midpoint
\* winfo_width() / 2, doubled, is the width itself
SnapAxis(v2, size) == IF Abs(v2 - size) <= 2 * SnapDistance THEN size ELSE v2

\* on_text_drag, lines 172-203: the move branch
DragMove(S, ex, ey) ==
    LET sf == S.self
        w == S.clock_window.width
        h == S.clock_window.height
        x2 == 2 * ex - sf.drag_offset_x2[1]
        y2 == 2 * ey - sf.drag_offset_y2[1]
        nx2 == SnapAxis(x2, w)
        ny2 == SnapAxis(y2, h)
        snapped == Abs(x2 - w) <= 2 * SnapDistance \/ Abs(y2 - h) <= 2 * SnapDistance
        c == [S.canvas EXCEPT !.x2 = nx2, !.y2 = ny2]
        s1 == MoveItems(sf, BBox(c))
        s2 == IF snapped
              THEN [s1 EXCEPT !.center_line_v = IF @ = None THEN <<w, 0, w, 2 * h>> ELSE @,
                              !.center_line_h = IF @ = None THEN <<0, h, 2 * w, h>> ELSE @]
              ELSE [s1 EXCEPT !.center_line_v = None, !.center_line_h = None]
    IN  [S EXCEPT !.self = s2, !.canvas = c]

\* on_text_drag, lines 157-203
OnTextDrag(S, ex, ey) ==
    IF S.self.scaling THEN DragScale(S, ey)
    ELSE IF S.self.dragging THEN DragMove(S, ex, ey)
    ELSE S

\* on_text_release clearing the flags and leaving the guide lines
OnTextRelease_KeepsGuides(S) ==
    [S EXCEPT !.self = [S.self EXCEPT !.dragging = FALSE, !.scaling = FALSE]]

\* on_text_release clearing the dragging flag and leaving the scaling flag
OnTextRelease_KeepsScaling(S) ==
    [S EXCEPT !.self = [S.self EXCEPT !.dragging = FALSE,
                                      !.center_line_v = None, !.center_line_h = None]]

\* on_text_release, lines 205-213
OnTextRelease(S) ==
    [S EXCEPT !.self = [S.self EXCEPT !.dragging = FALSE, !.scaling = FALSE,
                                      !.center_line_v = None, !.center_line_h = None]]

\* the step taken from the reported magnitude, in units of 120
WheelDelta_Magnitude(ev) ==
    IF ev.num = 4 THEN 1 ELSE IF ev.delta > 0 THEN ev.delta \div 120 ELSE 0 - 1

\* line 217: the step of one scroll event
WheelDelta(ev) == IF ev.delta > 0 \/ ev.num = 4 THEN 1 ELSE 0 - 1

\* on_mousewheel, lines 215-224
OnMouseWheel(S, ev) ==
    IF S.self.selection_rect = None THEN S
    ELSE
      LET size == Max(1, S.self.font_size + WheelDelta(ev))
          c == [S.canvas EXCEPT !.font = <<S.self.font_family, size>>]
      IN  [S EXCEPT !.self = MoveItems([S.self EXCEPT !.font_size = size], BBox(c)),
                    !.canvas = c,
                    !.form = [S.form EXCEPT !.font_size_var = IntStr(size)]]

\* update_clock, lines 232-234, at time t
UpdateClock(S, t) ==
    [S EXCEPT !.canvas = [S.canvas EXCEPT !.text = GetTimeStr(S.self.time_format, t)]]

\* toggle_format, lines 102-104
ToggleFormat(S, t) ==
    UpdateClock([S EXCEPT !.self = [S.self EXCEPT !.time_format =
                                        IF @ = "24" THEN "12" ELSE "24"]], t)

\* change_font_color, lines 96-100: color is what the chooser gave, empty when
\* the dialog was cancelled
ChangeFontColor(S, color) ==
    IF color = "" THEN S
    ELSE ApplySettings([S EXCEPT !.self = [S.self EXCEPT !.font_color = color]])

\* create_text(100, 100, ...): where the text starts, on both axes
TextStart == 100

\* the geometry of a window that was given none
UnsetGeometry == <<"1", "x", "1", "+", "0", "+", "0">>

\* WindowClock.__init__, lines 20-65, with create_settings_ui, lines 67-72
NewWindowClock(monitors, font_size, time_format, t) ==
    LET sf == [bg_color |-> "black", font_color |-> "white", font_size |-> font_size,
               time_format |-> time_format, font_family |-> "Helvetica",
               selected_monitor_index |-> 0, dragging |-> FALSE, scaling |-> FALSE,
               scale_handle |-> None, center_line_h |-> None, center_line_v |-> None,
               selection_rect |-> None,
               monitors |-> monitors, monitor_names |-> Names(monitors),
               scale_start_y |-> None, initial_font_size |-> None,
               drag_offset_x2 |-> None, drag_offset_y2 |-> None]
        f == [font_var |-> "Helvetica", font_size_var |-> IntStr(font_size),
              monitor_var |-> monitors[1].name, monitor_current |-> 0]
        c == [x2 |-> 2 * TextStart, y2 |-> 2 * TextStart, text |-> GetTimeStr("", 0),
              font |-> <<"Helvetica", font_size>>, fill |-> "white", bg |-> "black"]
    IN  UpdateClock(ApplySettings([self |-> sf, canvas |-> c, form |-> f,
                                   clock_window |-> TkGeometry(UnsetGeometry)]), t)

----------------------------------------------------------------------------
(* Inputs                                                                  *)

SeqsUpTo(S, n) == UNION {[1..k -> S] : k \in 0..n}

Platforms == {"win32", "darwin", "linux"}

ScreenSizes == {<<160, 200>>, <<161, 200>>}

NameA == <<"A">>

NameB == <<"B">>

\* rectangles GetMonitorInfoW fills in; the last is the zeroed struct of a
\* failed call
WinRects ==
    {[left |-> 0, top |-> 0, right |-> 160, bottom |-> 200, name |-> NameA],
     [left |-> 0 - 200, top |-> 0, right |-> 0, bottom |-> 200, name |-> NameB],
     [left |-> 160, top |-> 0, right |-> 280, bottom |-> 200, name |-> NameA],
     [left |-> 0, top |-> 0, right |-> 0, bottom |-> 0, name |-> <<>>]}

WinInputs ==
    {[ok |-> o, rects |-> r] : o \in BOOLEAN, r \in SeqsUpTo(WinRects, MaxDisplays)}

\* display bounds in tenths of a pixel
DarwinBounds ==
    {[did |-> 1, origin_x |-> 0, origin_y |-> 0, size_w |-> 1600, size_h |-> 2000],
     [did |-> 27, origin_x |-> 0 - 1605, origin_y |-> 5, size_w |-> 1609, size_h |-> 0]}

DarwinInputs ==
    {[loaded |-> l, rc |-> rc, fault |-> f, displays |-> d] :
        l \in BOOLEAN, rc \in {0, 1}, f \in BOOLEAN,
        d \in SeqsUpTo(DarwinBounds, MaxDisplays)}

\* the pieces of a geometry token WIDTHxHEIGHT+X+Y
WidthTexts == {<<"2">>, <<"1", "3">>}

HeightTexts == {<<"1">>}

OffsetTexts == {<<"4">>}

SignTexts == {<<>>, <<"+">>, <<"-">>}

GeometryText(g) ==
    g.w \o <<"x">> \o g.h \o <<"+">> \o g.xs \o g.x \o <<"+">> \o g.ys \o g.y

ShapedGeometries ==
    [w : WidthTexts, h : HeightTexts, xs : SignTexts, x : OffsetTexts,
     ys : SignTexts, y : OffsetTexts]

\* geometry tokens that are not WIDTHxHEIGHT+X+Y; the first is what xrandr
\* prints (sizes with the millimetres after a slash)
OtherGeometries ==
    {<<"2", "/", "3", "x", "1", "/", "3", "+", "4", "+", "4">>,
     <<"2", "x", "1">>,
     <<"2", "+", "4", "+", "4">>,
     <<"2", "x", "1", "-", "4", "+", "4">>,
     <<"2", "x", "1", "+", "4">>,
     <<"a", "x", "1", "+", "4", "+", "4">>}

GeometryTokens == {GeometryText(g) : g \in ShapedGeometries} \cup OtherGeometries

\* " 0: +*A GEOMETRY  NAME", spaced as xrandr spaces it
MonitorLine(geom, name) ==
    <<" ", "0", ":", " ", "+", "*", "A", " ">> \o geom \o <<" ", " ">> \o name

PlainGeometry == <<"2", "x", "1", "+", "4", "+", "4">>

OutputLines ==
    {MonitorLine(g, n) : g \in GeometryTokens, n \in {NameA, NameB}}
    \cup {<<>>,
          <<"M", "o", "n", "i", "t", "o", "r", "s", ":", " ", "2">>,
          <<"0", ":", " ", "A", " ">> \o PlainGeometry \o <<" ", "A">>,
          <<"0", ":", " ", "A", " ">> \o <<"2", "x", "1">> \o <<" ", "A">>,
          <<"0", ":", " ", "+", "A", " ">> \o PlainGeometry,
          <<"0", ":", " ", "+", "A", " ">> \o <<"2", "x", "1">>,
          <<"0", ":", " ", "+", "A", " ">> \o PlainGeometry \o <<" ", "x", " ", "B">>}

LinuxInputs ==
    {[ran |-> FALSE, lines |-> <<>>]}
    \cup {[ran |-> TRUE, lines |-> l] : l \in SeqsUpTo(OutputLines, MaxLines)}

InputsOf(plat) ==
    IF plat = "win32" THEN WinInputs
    ELSE IF plat = "darwin" THEN DarwinInputs
    ELSE LinuxInputs

Times == 0..MaxTime

Families == {"Helvetica", "Courier"}

Colors == {"white", "red"}

\* font sizes the command line and the settings panel can hold
FieldSizes == (0 - 1)..MaxFontSize

\* what the font size field can hold: a size, or text that is no integer
FieldTexts == {IntStr(n) : n \in FieldSizes} \cup {<<"a", "b", "c">>}

\* scroll events: <MouseWheel> carries delta, <Button-4> and <Button-5> carry num
ScrollEvents ==
    {[delta |-> 120, num |-> 0], [delta |-> 240, num |-> 0],
     [delta |-> 0 - 120, num |-> 0], [delta |-> 0, num |-> 4], [delta |-> 0, num |-> 5]}

\* a host with three displays, of which two share a name and one lies left of
\* the primary one
ThreeDisplays ==
    [in |-> [ok |-> TRUE,
             rects |-> <<[left |-> 0, top |-> 0, right |-> 160, bottom |-> 200,
                          name |-> NameA],
                         [left |-> 0 - 200, top |-> 0, right |-> 0, bottom |-> 200,
                          name |-> NameB],
                         [left |-> 160, top |-> 0, right |-> 280, bottom |-> 200,
                          name |-> NameA]>>],
     scr |-> <<160, 200>>]

\* a host on which no display is found
NoDisplay(scr) == [in |-> [ok |-> FALSE, rects |-> <<>>], scr |-> scr]

\* A session is what the user does with one run of the program: the host it
\* runs on, the command line, and the pointer positions and panel entries used.
\* The text starts at (100, 100); on the first display the canvas midpoint is
\* (80, 100).

\* moving the text: the points are far enough apart for one bounding box never
\* to hold two of them
MoveSession ==
    [hosts |-> {ThreeDisplays}, sizes |-> {1, 2}, formats |-> {"24"}, times |-> {0},
     presses |-> {<<100, 100>>, <<80, 100>>, <<90, 110>>, <<91, 150>>, <<90, 130>>,
                  <<120, 110>>, <<69, 89>>},
     drags |-> {<<100, 100>>, <<90, 110>>, <<91, 150>>, <<90, 130>>, <<120, 110>>,
                <<69, 89>>},
     scrolls |-> {}, fields |-> {}, families |-> {}, colors |-> {}, monitors |-> {1}]

\* resizing the text by the handle, the wheel and the panel
ResizeSession ==
    [hosts |-> {NoDisplay(<<160, 200>>)}, sizes |-> {1, MaxFontSize},
     formats |-> {"24"}, times |-> {0},
     presses |-> {<<100, 100>>, <<108, 105>>, <<108, 106>>},
     drags |-> {<<100, 100>>, <<108, 105>>, <<108, 106>>, <<108, 45>>},
     scrolls |-> ScrollEvents, fields |-> {IntStr(2), <<"a", "b", "c">>},
     families |-> {}, colors |-> {}, monitors |-> {}]

\* selecting and deselecting: points on and next to the edges of the box of
\* the text at its start and of its handle, for both time formats
SelectSession ==
    [hosts |-> {NoDisplay(<<161, 200>>)}, sizes |-> {1}, formats |-> {"12", "24"},
     times |-> Times,
     presses |-> {<<104, 101>>, <<96, 99>>, <<105, 100>>, <<104, 102>>, <<112, 109>>,
                  <<113, 109>>, <<106, 100>>},
     drags |-> {<<80, 100>>},
     scrolls |-> {}, fields |-> {}, families |-> {}, colors |-> {}, monitors |-> {}]

\* the settings panel
SettingsSession ==
    [hosts |-> {ThreeDisplays}, sizes |-> FieldSizes,
     formats |-> {"24"}, times |-> {0},
     presses |-> {<<100, 100>>}, drags |-> {},
     scrolls |-> {},
     fields |-> {IntStr(0 - 1), IntStr(0), IntStr(MaxFontSize), <<"a", "b", "c">>},
     families |-> Families, colors |-> {"red", ""}, monitors |-> {0, 1, 2}]

Sessions == {MoveSession, ResizeSession, SelectSession, SettingsSession}

\* the event handled last: what it was, where the pointer was, what the wheel
\* reported, and the interaction state it met
NoEvent == [op |-> "none", x |-> 0, y |-> 0, delta |-> 0, num |-> 0, from |-> "none"]

Event(op) == [NoEvent EXCEPT !.op = op]

----------------------------------------------------------------------------
(* The monitor enumeration on its own                                      *)

InitEnum ==
    /\ platform \in Platforms
    /\ os_input \in InputsOf(platform)
    /\ screen \in ScreenSizes
    /\ enum_status = "init"
    /\ enum_found = <<>>
    /\ enum_result = <<>>
    /\ self = None /\ canvas = None /\ form = None /\ clock_window = None
    /\ last = NoEvent
    /\ env = None
    /\ button = "up"

EnumerateMonitors ==
    /\ enum_status = "init"
    /\ LET r == EnumerateMonitorsOf(platform, os_input, screen)
       IN  /\ enum_status' = r.status
           /\ enum_found' = r.found
           /\ enum_result' = r.monitors
    /\ UNCHANGED <<platform, os_input, screen, self, canvas, form, clock_window, last, env,
                   button>>

NextEnum == EnumerateMonitors

SpecEnum == InitEnum /\ [][NextEnum]_vars

----------------------------------------------------------------------------
(* The overlay                                                             *)

State == [self |-> self, canvas |-> canvas, form |-> form, clock_window |-> clock_window]

\* the states of the interaction, read off the flags and the selection
Mode(sf) ==
    IF sf.scaling THEN "resizing"
    ELSE IF sf.dragging THEN "dragging"
    ELSE IF sf.selection_rect # None THEN "selected"
    ELSE "idle"

\* button 1 after an event op met with the button as b
ButtonAfter(b, op) ==
    IF op = "press" THEN (IF b = "up" THEN "down" ELSE "out_of_turn")
    ELSE IF op = "release" /\ b = "down" THEN "up"
    ELSE b

\* the handler leaves S, having handled ev
Becomes(S, ev) ==
    /\ FontPixels(S.self.font_size) <= MaxFontSize
    /\ self' = S.self
    /\ canvas' = S.canvas
    /\ form' = S.form
    /\ clock_window' = S.clock_window
    /\ last' = [ev EXCEPT !.from = Mode(self)]
    /\ button' = ButtonAfter(button, ev.op)
    /\ UNCHANGED <<env, platform, os_input, screen, enum_status, enum_found, enum_result>>

Init ==
    \E session \in Sessions :
      \E host \in session.hosts, font_size \in session.sizes,
         time_format \in session.formats, t \in session.times :
        LET r == EnumerateMonitorsOf("win32", host.in, host.scr)
            S == NewWindowClock(r.monitors, font_size, time_format, t)
        IN  /\ env = session
            /\ platform = "win32"
            /\ os_input = host.in
            /\ screen = host.scr
            /\ enum_status = r.status
            /\ enum_found = r.found
            /\ enum_result = r.monitors
            /\ self = S.self
            /\ canvas = S.canvas
            /\ form = S.form
            /\ clock_window = S.clock_window
            /\ last = Event("init")
            /\ button = "up"

Press == \E p \in env.presses :
    Becomes(OnTextPress(State, p[1], p[2]), [Event("press") EXCEPT !.x = p[1], !.y = p[2]])

Drag == \E p \in env.drags :
    Becomes(OnTextDrag(State, p[1], p[2]), [Event("drag") EXCEPT !.x = p[1], !.y = p[2]])

Release == \E ev \in {Event("release")} : Becomes(OnTextRelease(State), ev)

Scroll == \E ev \in env.scrolls :
    Becomes(OnMouseWheel(State, ev),
            [Event("scroll") EXCEPT !.delta = ev.delta, !.num = ev.num])

\* the Apply button
Apply == \E ev \in {Event("apply_settings")} : Becomes(ApplySettings(State), ev)

\* the user picks a font, types a size, picks a display
EditFont == \E v \in env.families :
    Becomes([State EXCEPT !.form = [form EXCEPT !.font_var = v]], Event("edit"))

EditSize == \E v \in env.fields :
    Becomes([State EXCEPT !.form = [form EXCEPT !.font_size_var = v]], Event("edit"))

EditMonitor == \E i \in env.monitors :
    /\ i < Len(self.monitor_names)
    /\ Becomes([State EXCEPT !.form = [form EXCEPT
                                           !.monitor_var = self.monitor_names[i + 1],
                                           !.monitor_current = i]],
               Event("edit"))

PickColor == \E color \in env.colors :
    Becomes(ChangeFontColor(State, color), Event("change_font_color"))

Toggle == \E t \in env.times :
    /\ Cardinality(env.formats) > 1
    /\ Becomes(ToggleFormat(State, t), Event("toggle_format"))

Tick == \E t \in env.times : Becomes(UpdateClock(State, t), Event("update_clock"))

Next ==
    \/ Press \/ Drag \/ Release \/ Scroll
    \/ Apply \/ EditFont \/ EditSize \/ EditMonitor
    \/ PickColor \/ Toggle \/ Tick

Spec == Init /\ [][Next]_vars

----------------------------------------------------------------------------
(* Claims about enumerate_monitors, checked under SpecEnum                 *)

Default == [width |-> screen[1], height |-> screen[2], x |-> 0, y |-> 0,
            name |-> DefaultName]

\* the platform's query failed or could not be made
QueryFailed ==
    \/ platform = "win32" /\ ~os_input.ok
    \/ platform = "darwin" /\ (~os_input.loaded \/ os_input.rc # 0)
    \/ platform = "linux" /\ ~os_input.ran

RECURSIVE SkippingParse(_)
SkippingParse(lines) ==
    IF lines = <<>> THEN <<>>
    ELSE LET r == ParseLine(Head(lines))
         IN  (IF r.kind = "monitor" THEN <<r.m>> ELSE <<>>) \o SkippingParse(Tail(lines))

\* C2: on any output of the listing tool no error leaves enumerate_monitors: a
\* line that cannot be parsed is skipped on its own and the well-formed lines
\* after it still give their displays.
C2_NoErrorEscapes ==
    (enum_status # "init" /\ platform = "linux" /\ os_input.ran) =>
        /\ enum_status = "returned"
        /\ enum_found = SkippingParse(os_input.lines)

\* a line is of the claimed shape: at least 4 fields, the second beginning with
\* "+", the third WIDTHxHEIGHT+X+Y with X and Y each possibly signed
ShapesOf(line) ==
    LET parts == Fields(line)
    IN  IF Len(parts) >= 4 /\ StartsWith(parts[2], "+")
        THEN {g \in ShapedGeometries : GeometryText(g) = parts[3]}
        ELSE {}

\* a line with fewer than 4 fields or without the "+" flag
Unflagged(line) ==
    LET parts == Fields(line) IN Len(parts) < 4 \/ ~StartsWith(parts[2], "+")

Signed(sign, digits) ==
    IF sign = <<"-">> THEN 0 - DigitsValue(digits, 0) ELSE DigitsValue(digits, 0)

\* the display the claim promises for a line of the claimed shape
ShapedMonitor(line) ==
    LET g == CHOOSE g \in ShapesOf(line) : TRUE
        parts == Fields(line)
    IN  [width |-> DigitsValue(g.w, 0), height |-> DigitsValue(g.h, 0),
         x |-> Signed(g.xs, g.x), y |-> Signed(g.ys, g.y), name |-> parts[Len(parts)]]

RECURSIVE ShapedMonitors(_)
ShapedMonitors(lines) ==
    IF lines = <<>> THEN <<>>
    ELSE (IF ShapesOf(Head(lines)) # {} THEN <<ShapedMonitor(Head(lines))>> ELSE <<>>)
         \o ShapedMonitors(Tail(lines))

\* C3: when every line is of the claimed shape or has fewer than 4 fields or
\* no "+" flag, the displays found are those of the shaped lines, in line
\* order, each with the width, height, x, y and name its line states.
C3_ShapedLinesParsed ==
    (/\ enum_status # "init" /\ platform = "linux" /\ os_input.ran
     /\ \A i \in 1..Len(os_input.lines) :
            ShapesOf(os_input.lines[i]) # {} \/ Unflagged(os_input.lines[i]))
    => (enum_status = "returned" /\ enum_found = ShapedMonitors(os_input.lines))

----------------------------------------------------------------------------
(* Claims about the overlay, checked under Spec                            *)

\* x, y lies in the box b, edges included
Within(b, x, y) == b[1] <= x /\ x <= b[3] /\ b[2] <= y /\ y <= b[4]

AtLeastOne(n) == IF n >= 1 THEN n ELSE 1

\* selected: outline and handle shown, no gesture active
IsSelected ==
    /\ self.selection_rect # None /\ self.scale_handle # None
    /\ ~self.dragging /\ ~self.scaling

\* idle: nothing shown, no gesture active
IsIdle ==
    /\ self.selection_rect = None /\ self.scale_handle = None
    /\ ~self.dragging /\ ~self.scaling

\* C4: in every state of the overlay font_size is at least 1.
C4_FontSizeAtLeastOne == self.font_size >= 1

\* C5: after a drag event met while resizing, the font size is
\* max(1, B + (y - Y0)) for the font size B and pointer y Y0 recorded at the
\* press on the handle and the drag's pointer y.
C5_ResizeDrag ==
    (last.op = "drag" /\ last.from = "resizing") =>
        self.font_size =
            AtLeastOne(self.initial_font_size[1] + (last.y - self.scale_start_y[1]))

\* C5, witness: a drag 60 above the press on the handle, from size 2, floors at 1
C5_Witness ==
    /\ last.op = "drag" /\ last.from = "resizing"
    /\ self.initial_font_size = <<2>>
    /\ last.y - self.scale_start_y[1] = 0 - 60
    /\ self.font_size = 1

\* one axis of the claimed snap, on doubled coordinates: the midpoint when the
\* pointer less the offset is within 10 of it, else the pointer less the offset
SnapTo(p, offset2, size) ==
    IF Abs((2 * p - offset2) - size) <= 2 * 10 THEN size ELSE 2 * p - offset2

\* C6: after a drag event met while dragging, each coordinate of the text is
\* the canvas midpoint when the pointer less the recorded offset is within 10
\* of that midpoint, and the pointer less the recorded offset otherwise, the
\* two axes apart.
C6_SnapPerAxis ==
    (last.op = "drag" /\ last.from = "dragging") =>
        /\ canvas.x2 = SnapTo(last.x, self.drag_offset_x2[1], clock_window.width)
        /\ canvas.y2 = SnapTo(last.y, self.drag_offset_y2[1], clock_window.height)

\* C6, witness: a drag that snaps x from exactly 10 off the midpoint and leaves
\* y, 30 off its midpoint, where the pointer put it
C6_Witness ==
    /\ last.op = "drag" /\ last.from = "dragging"
    /\ Abs((2 * last.x - self.drag_offset_x2[1]) - clock_window.width) = 2 * 10
    /\ canvas.x2 = clock_window.width
    /\ canvas.y2 = 2 * last.y - self.drag_offset_y2[1]
    /\ canvas.y2 - clock_window.height = 2 * 30

\* the direction of the scroll event e: up for a positive delta or button 4
ScrollsUp(e) == e.delta > 0 \/ e.num = 4

\* C7: a scroll event met without a selection changes nothing; met with a
\* selection it sets the font size to max(1, font_size + 1) or
\* max(1, font_size - 1) by its direction alone, and moves nothing.
C7_Scroll ==
    [][last'.op = "scroll" =>
        IF self.selection_rect = None
        THEN /\ self' = self /\ canvas' = canvas
             /\ form' = form /\ clock_window' = clock_window
        ELSE /\ self'.font_size =
                    AtLeastOne(self.font_size + (IF ScrollsUp(last') THEN 1 ELSE 0 - 1))
             /\ canvas'.x2 = canvas.x2 /\ canvas'.y2 = canvas.y2
             /\ self'.dragging = self.dragging /\ self'.scaling = self.scaling
             /\ self'.selection_rect # None]_vars

\* C7, witness: a wheel event of twice the usual magnitude, met with a
\* selection, has taken the font size from 1 to 2
C7_Witness ==
    /\ last.op = "scroll" /\ last.from = "selected" /\ last.delta = 240
    /\ self.font_size = 2 /\ form.font_size_var = IntStr(2)
    /\ self.selection_rect = BBox(canvas)

\* C8 as stated: met while selected, a press outside the text's bounding box
\* leaves the overlay idle.
C8_PressOutsideText ==
    [][(/\ last'.op = "press" /\ IsSelected
        /\ ~Within(BBox(canvas), last'.x, last'.y))
       => IsIdle']_vars

\* C8, amended: met while selected, a press outside the text's bounding box
\* and outside the resize handle leaves the overlay idle: outline and handle
\* removed, no gesture started.
C8_PressOutside ==
    [][(/\ last'.op = "press" /\ IsSelected
        /\ ~Within(BBox(canvas), last'.x, last'.y)
        /\ ~Within(self.scale_handle, last'.x, last'.y))
       => IsIdle']_vars

\* C8, witness: a press one unit right of the box's right edge, met while
\* selected, has left the overlay idle
C8_Witness ==
    /\ last.op = "press" /\ last.from = "selected"
    /\ last.x = BBox(canvas)[3] + 1 /\ last.y < BBox(canvas)[4]
    /\ IsIdle

\* C9: apply_settings met with a font size field that holds no integer leaves
\* the state as it was.
C9_InvalidSizeRejected ==
    [][(last'.op = "apply_settings" /\ ~IsIntLiteral(form.font_size_var))
       => (self' = self /\ canvas' = canvas /\ form' = form
           /\ clock_window' = clock_window)]_vars

\* C10: after apply_settings with entry i of the display list selected, the
\* selected index is i and the window has the width, height, x and y of
\* display i.
C10_SelectedDisplayApplied ==
    (last.op = "apply_settings" /\ IsIntLiteral(form.font_size_var)) =>
        LET i == form.monitor_current
            m == self.monitors[i + 1]
        IN  /\ self.selected_monitor_index = i
            /\ clock_window = [width |-> m.width, height |-> m.height,
                               xedge |-> "left", x |-> m.x,
                               yedge |-> "top", y |-> m.y]

\* the 8x8 box whose top-left corner is the bottom-right corner of the box b
CornerBox(b) == <<b[3], b[4], b[3] + 8, b[4] + 8>>

\* C11: met while idle, a press inside the text's bounding box leaves the
\* overlay selected: the outline is shown, the 8x8 handle sits at the bounding
\* box's bottom-right corner, and neither a drag nor a resize gesture is active
\* (so that a drag event that follows moves and resizes nothing).
C11_IdlePressSelects ==
    [][(/\ last'.op = "press" /\ IsIdle
        /\ Within(BBox(canvas), last'.x, last'.y))
       => (/\ IsSelected'
           /\ self'.selection_rect = BBox(canvas')
           /\ self'.scale_handle = CornerBox(BBox(canvas')))]_vars

\* the pointer at x, y less the centre of the box b, doubled
FromCentre2(b, x, y) == <<2 * x - (b[1] + b[3]), 2 * y - (b[2] + b[4])>>

\* a drag gesture, and no resize, started with the offset o2
StartsDrag(sf, o2) ==
    /\ sf.dragging /\ ~sf.scaling
    /\ sf.drag_offset_x2 = <<o2[1]>> /\ sf.drag_offset_y2 = <<o2[2]>>

C13_PressOnHandle ==
    [][(/\ last'.op = "press" /\ IsSelected
        /\ Within(self.scale_handle, last'.x, last'.y))
       => (/\ self'.scaling /\ ~self'.dragging
           /\ self'.scale_start_y = <<last'.y>>
           /\ self'.initial_font_size = <<self.font_size>>
           /\ canvas' = canvas
           /\ self'.font_size = self.font_size
           /\ self'.selection_rect = self.selection_rect
           /\ self'.scale_handle = self.scale_handle)]_vars

\* C13, witness: a press on the corner the handle shares with the bounding
\* box, met while selected, has started a resize from that y and font size
C13_Witness ==
    /\ last.op = "press" /\ last.from = "selected"
    /\ self.scale_handle # None
    /\ last.x = self.scale_handle[1] /\ last.y = self.scale_handle[2]
    /\ Within(BBox(canvas), last.x, last.y)
    /\ self.scaling /\ ~self.dragging
    /\ self.scale_start_y = <<last.y>> /\ self.initial_font_size = <<self.font_size>>

\* dragging or resizing, with the selection shown
InGesture ==
    /\ self.dragging \/ self.scaling
    /\ self.selection_rect # None /\ self.scale_handle # None

\* C14: a release met while dragging or resizing leaves the overlay selected:
\* no gesture active, no guide line shown, the outline and the handle still
\* there, and the text's position and the font size as they were before the
\* release, which is as the last drag left them.
C14_ReleaseKeeps ==
    [][(last'.op = "release" /\ InGesture)
       => (/\ IsSelected'
           /\ self'.center_line_v = None /\ self'.center_line_h = None
           /\ canvas' = canvas
           /\ self'.font_size = self.font_size
           /\ self'.selection_rect = self.selection_rect
           /\ self'.scale_handle = self.scale_handle)]_vars

\* C14, witness: a release met while dragging, after a drag that snapped the
\* text to the horizontal midpoint and took it off its starting height, has
\* left the overlay selected with the text where the drag put it
C14_Witness ==
    /\ last.op = "release" /\ last.from = "dragging"
    /\ IsSelected
    /\ self.center_line_v = None /\ self.center_line_h = None
    /\ canvas.x2 = clock_window.width
    /\ canvas.y2 # 2 * TextStart /\ canvas.y2 # clock_window.height

\* C15: after a drag event met while dragging, the guide line through the
\* horizontal midpoint is shown exactly when x is snapped to that midpoint, and
\* the guide line through the vertical midpoint exactly when y is snapped.
C15_GuidePerAxis ==
    (last.op = "drag" /\ last.from = "dragging") =>
        /\ self.center_line_v # None <=> canvas.x2 = clock_window.width
        /\ self.center_line_h # None <=> canvas.y2 = clock_window.height

\* what the claim compares of two states of the overlay: the text's position,
\* the font size, whether a selection is shown, and the gesture flags
Interaction(S) ==
    [x2 |-> S.canvas.x2, y2 |-> S.canvas.y2, font_size |-> S.self.font_size,
     outline |-> S.self.selection_rect # None, handle |-> S.self.scale_handle # None,
     dragging |-> S.self.dragging, scaling |-> S.self.scaling]

\* the baselines of the gestures
Baselines(sf) ==
    <<sf.scale_start_y, sf.initial_font_size, sf.drag_offset_x2, sf.drag_offset_y2>>

\* the tick at time t changes nothing of S but the text's content
TickWritesTextOnly(S, t) ==
    LET T == UpdateClock(S, t)
    IN  /\ T.self = S.self /\ T.form = S.form /\ T.clock_window = S.clock_window
        /\ [T.canvas EXCEPT !.text = S.canvas.text] = S.canvas

\* the tick at time t before and after a press at p, a drag to p, a release, and
\* the scroll event e
TickCommutesWithPress(S, t, p) ==
    Interaction(OnTextPress(UpdateClock(S, t), p[1], p[2]))
        = Interaction(UpdateClock(OnTextPress(S, p[1], p[2]), t))

TickCommutesWithDrag(S, t, p) ==
    Interaction(OnTextDrag(UpdateClock(S, t), p[1], p[2]))
        = Interaction(UpdateClock(OnTextDrag(S, p[1], p[2]), t))

TickCommutesWithRelease(S, t) ==
    Interaction(OnTextRelease(UpdateClock(S, t)))
        = Interaction(UpdateClock(OnTextRelease(S), t))

TickCommutesWithScroll(S, t, e) ==
    Interaction(OnMouseWheel(UpdateClock(S, t), e))
        = Interaction(UpdateClock(OnMouseWheel(S, e), t))

\* C16: in every state the timer tick changes the text's content and nothing
\* else, and with every press, drag, release and scroll event it gives the same
\* position, font size, selection and gesture flags whether it runs before the
\* event or after it.
C16_TickCommutes ==
    \A t \in env.times :
        /\ TickWritesTextOnly(State, t)
        /\ \A p \in env.presses : TickCommutesWithPress(State, t, p)
        /\ \A p \in env.drags : TickCommutesWithDrag(State, t, p)
        /\ TickCommutesWithRelease(State, t)
        /\ \A e \in env.scrolls : TickCommutesWithScroll(State, t, e)

\* C17: apply_settings leaves the interaction as it was: the state (idle,
\* selected, dragging or resizing), the gesture flags and baselines, the guide
\* lines and the text's position and content are the same after the call as
\* before it, and a selection is shown after it exactly when one was before;
\* what it writes is the font family and size, the selected display and the
\* window's geometry, the colours of the canvas, and the place of the outline
\* and the handle.
C17_ApplyKeepsInteraction ==
    [][last'.op = "apply_settings" =>
        /\ Mode(self') = Mode(self)
        /\ Baselines(self') = Baselines(self)
        /\ canvas'.x2 = canvas.x2 /\ canvas'.y2 = canvas.y2
        /\ (self'.selection_rect # None) <=> (self.selection_rect # None)
        /\ (self'.scale_handle # None) <=> (self.scale_handle # None)
        /\ [self' EXCEPT !.font_family = self.font_family,
                         !.font_size = self.font_size,
                         !.selected_monitor_index = self.selected_monitor_index,
                         !.selection_rect = self.selection_rect,
                         !.scale_handle = self.scale_handle] = self
        /\ [canvas' EXCEPT !.font = canvas.font, !.fill = canvas.fill,
                           !.bg = canvas.bg] = canvas
        /\ form' = form]_vars

\* C17, witness: apply_settings met while dragging, with the second display
\* selected and another font size typed, has left the drag in progress and the
\* text where it was, and moved the window and the outline
C17_Witness ==
    /\ last.op = "apply_settings" /\ last.from = "dragging"
    /\ self.dragging /\ ~self.scaling
    /\ self.selected_monitor_index = 1
    /\ clock_window.width = self.monitors[2].width
    /\ self.font_size = MaxFontSize /\ form.font_size_var = IntStr(MaxFontSize)
    /\ canvas.x2 = 2 * TextStart /\ canvas.y2 = 2 * TextStart
    /\ self.selection_rect = BBox(canvas)

\* the events of the pointer and the Apply button
PointerOrApply == {"press", "drag", "release", "scroll", "apply_settings"}

\* C18: after every press, drag, release, scroll and apply_settings event, a
\* selection that is shown has its outline on the text's current bounding box
\* and its handle on the 8x8 box whose top-left corner is that box's
\* bottom-right corner.
C18_OutlineOnText ==
    (last.op \in PointerOrApply /\ self.selection_rect # None) =>
        /\ self.selection_rect = BBox(canvas)
        /\ self.scale_handle = CornerBox(BBox(canvas))

\* C19: as long as every press was followed by a release before the next
\* press, the dragging flag and the scaling flag are never both set, and when
\* either is set the outline and the handle are shown.
C19_FlagsExclusive ==
    button # "out_of_turn" =>
        /\ ~(self.dragging /\ self.scaling)
        /\ (self.dragging \/ self.scaling) =>
               (self.selection_rect # None /\ self.scale_handle # None)

\* C19, witness: presses and releases in turn, the button now down on the
\* handle (which an earlier press and release left shown), and a drag of the
\* resize under way: scaling set, dragging not, the selection shown
C19_Witness ==
    /\ button = "down"
    /\ last.op = "drag" /\ last.from = "resizing"
    /\ self.scaling /\ ~self.dragging
    /\ self.selection_rect # None /\ self.scale_handle # None
    /\ self.font_size # self.initial_font_size[1]

====
